---- MODULE Spec2Model ----
(***************************************************************************)
(* msword: read-only key -> value views over MS Word files.                *)
(*                                                                         *)
(* A str is modelled as a sequence of one-character strings, so that       *)
(* split, slicing, concatenation and join are computed character by        *)
(* character.  A store is the stack of wrappers applied to a byte source   *)
(* (innermost first); iteration, membership and keyed lookup are computed  *)
(* by walking that stack the way the wrapped classes delegate to super().  *)
(***************************************************************************)
EXTENDS Naturals, Sequences, FiniteSets, TLC

\* base                 the byte source: file name -> content, never written
\* filt_guards_getitem  whether filt_iter also refuses a keyed lookup of a key
\*                      its filter rejects (KeyError); base.py does not decide
\*                      this, the installed filt_iter does, so both are kept
\* last                 the latest operation with its outcome and call counts
\* prev                 the latest keyed lookup through a text store before it
VARIABLES base, filt_guards_getitem, last, prev

vars == <<base, filt_guards_getitem, last, prev>>

(***************************************************************************)
(* Bounds of the model.                                                    *)
(***************************************************************************)
\* files in the byte source
MaxKeys == 2
\* paragraphs of a document handed to get_text_from_docx
MaxParas == 3
\* dot-separated segments of an identifier handed to the key helpers
MaxSegs == 2

(***************************************************************************)
(* Python str primitives, on sequences of characters.                      *)
(***************************************************************************)
Min(a, b) == IF a <= b THEN a ELSE b

\* k[:n] for n >= 0
SliceTo(k, n) == SubSeq(k, 1, Min(n, Len(k)))

\* k.split(c) for a one-character separator c: never empty
RECURSIVE str_split(_, _)
str_split(k, c) ==
    IF \A i \in 1..Len(k) : k[i] # c
    THEN <<k>>
    ELSE LET i == CHOOSE j \in 1..Len(k) :
                      k[j] = c /\ \A h \in 1..(j - 1) : k[h] # c
         IN  <<SubSeq(k, 1, i - 1)>> \o str_split(SubSeq(k, i + 1, Len(k)), c)

\* sep.join(items)
RECURSIVE str_join(_, _)
str_join(sep, items) ==
    IF items = <<>> THEN <<>>
    ELSE IF Len(items) = 1 THEN items[1]
    ELSE items[1] \o sep \o str_join(sep, Tail(items))

\* Python's None
None == <<"None">>

(***************************************************************************)
(* Basic helpers (base.py)                                                 *)
(***************************************************************************)
_extension(k) ==
    LET parts == str_split(k, ".")
    IN  IF parts # <<>> THEN parts[Len(parts)] ELSE None

_msword_extensions == {<<"d", "o", "c">>, <<"d", "o", "c", "x">>}

_dflt_extension == <<".", "d", "o", "c", "x">>

_dflt_extension_len == Len(_dflt_extension)

has_msword_extension(k) == _extension(k) \in _msword_extensions

_remove_docx_extension(k) == SliceTo(k, _dflt_extension_len)

_add_docx_extension(k) == k \o _dflt_extension

paragraphs_text(doc) ==
    [i \in 1..Len(doc.paragraphs) |-> doc.paragraphs[i].text]

DFLT_PARAGRAPH_SEP == <<"\n">>

\* a plausible slip: paragraphs without text are skipped
get_text_skipping_blank(doc, paragraph_sep) ==
    str_join(paragraph_sep,
             SelectSeq(paragraphs_text(doc), LAMBDA t : t # <<>>))

get_text_from_docx(doc, paragraph_sep) ==
    str_join(paragraph_sep, paragraphs_text(doc))

(***************************************************************************)
(* Values and outcomes.  File content is the package a byte string         *)
(* encodes: a well-formed document with its paragraphs, or anything else.  *)
(* An outcome is a returned value or a raised exception, tagged by type.   *)
(***************************************************************************)
Para(t) == [text |-> t, style_id |-> "Normal"]

NotADoc == [wellformed |-> FALSE, paragraphs |-> <<>>]

DocBytes(texts) ==
    [wellformed |-> TRUE, paragraphs |-> [i \in 1..Len(texts) |-> Para(texts[i])]]

Returned(t, v) == [type |-> t, val |-> v]

Raised(t, v) == [type |-> t, val |-> v]

ValueTypes == {"bytes", "Document", "str"}

\* docx.Document(BytesIO(doc_bytes)): the parser rejects what is no package
bytes_to_doc(doc_bytes) ==
    IF doc_bytes.wellformed
    THEN Returned("Document", [paragraphs |-> doc_bytes.paragraphs])
    ELSE Raised("DecodeError", doc_bytes)

\* Pipe(bytes_to_doc, get_text_from_docx): the text of the parsed package;
\* get_text_from_docx is called with its default separator
bytes_to_text(doc_bytes) ==
    LET d == bytes_to_doc(doc_bytes)
    IN  IF d.type = "Document"
        THEN Returned("str", get_text_from_docx(d.val, DFLT_PARAGRAPH_SEP))
        ELSE d

(***************************************************************************)
(* Mapping wrappers.  A store is the sequence of wrappers applied to the   *)
(* byte source, innermost first; <<>> is the byte source itself (Files, or *)
(* FilesOfZip over an archive with the same entries).                      *)
(***************************************************************************)
Files == <<>>

FilterLayers == {"filt=has_msword_extension", "filt=_remove_docx_extension"}

DecoderLayers == {"value_decoder=bytes_to_doc",
                  "obj_of_data=get_text_from_docx",
                  "value_decoder=Pipe(bytes_to_doc, get_text_from_docx)"}

\* a plausible slip: the filter is put on the raw files, not on the store given
only_files_of_raw_source(store) == <<"filt=has_msword_extension">>

only_files_with_msword_extension(store) ==
    Append(store, "filt=has_msword_extension")

extension_less_keys(store) == Append(store, "filt=_remove_docx_extension")

with_bytes_to_doc_decoding(store) == Append(store, "value_decoder=bytes_to_doc")

with_doc_to_text_decoding(store) ==
    Append(store, "obj_of_data=get_text_from_docx")

with_bytes_to_text_decoding(store) ==
    Append(store, "value_decoder=Pipe(bytes_to_doc, get_text_from_docx)")

AllLocalFilesDocxStore == with_bytes_to_doc_decoding(Files)

\* a plausible slip: the text decoder is put on the raw files
AllLocalFilesDocxTextStoreOverFiles == with_doc_to_text_decoding(Files)

AllLocalFilesDocxTextStore == with_doc_to_text_decoding(AllLocalFilesDocxStore)

LocalDocxStore == only_files_with_msword_extension(AllLocalFilesDocxStore)

LocalDocxTextStore == only_files_with_msword_extension(AllLocalFilesDocxTextStore)

\* the stores the test builds by hand
doc_texts == with_bytes_to_text_decoding(Files)

with_extension_filter == only_files_with_msword_extension(doc_texts)

zipped_doc_texts ==
    with_bytes_to_text_decoding(only_files_with_msword_extension(Files))

Outer(store) == store[Len(store)]

Inner(store) == SubSeq(store, 1, Len(store) - 1)

\* filter(filt, keys) keeps a key when bool(filt(key)) is true; a str is true
\* when it is not empty
filt_passes(layer, k) ==
    IF layer = "filt=has_msword_extension"
    THEN has_msword_extension(k)
    ELSE _remove_docx_extension(k) # <<>>

\* __iter__: the keys a store yields (their order is the source's and is kept)
RECURSIVE store_iter(_)
store_iter(store) ==
    IF store = Files THEN DOMAIN base
    ELSE IF Outer(store) \in FilterLayers
    THEN {k \in store_iter(Inner(store)) : filt_passes(Outer(store), k)}
    ELSE store_iter(Inner(store))

\* __contains__
RECURSIVE store_contains(_, _)
store_contains(store, k) ==
    IF store = Files THEN k \in DOMAIN base
    ELSE IF Outer(store) \in FilterLayers
    THEN IF filt_passes(Outer(store), k)
         THEN store_contains(Inner(store), k)
         ELSE FALSE
    ELSE store_contains(Inner(store), k)

\* one value decoder applied to what the wrapped store returned; an exception
\* of the wrapped store passes through
decode(layer, r) ==
    IF r.type \notin ValueTypes THEN r
    ELSE IF layer = "value_decoder=bytes_to_doc"
    THEN IF r.type = "bytes"
         THEN [r EXCEPT !.type = bytes_to_doc(r.val).type,
                        !.val = bytes_to_doc(r.val).val,
                        !.parses = r.parses + 1]
         ELSE [r EXCEPT !.type = "TypeError", !.parses = r.parses + 1]
    ELSE IF layer = "obj_of_data=get_text_from_docx"
    THEN IF r.type = "Document"
         THEN [r EXCEPT !.type = "str",
                        !.val = get_text_from_docx(r.val, DFLT_PARAGRAPH_SEP),
                        !.texts = r.texts + 1]
         ELSE [r EXCEPT !.type = "AttributeError", !.texts = r.texts + 1]
    ELSE IF r.type = "bytes"
         THEN [r EXCEPT !.type = bytes_to_text(r.val).type,
                        !.val = bytes_to_text(r.val).val,
                        !.parses = r.parses + 1,
                        !.texts = IF bytes_to_doc(r.val).type = "Document"
                                  THEN r.texts + 1 ELSE r.texts]
         ELSE [r EXCEPT !.type = "TypeError", !.parses = r.parses + 1]

\* __getitem__: the outcome, with the number of reads of the byte source, of
\* packages parsed and of texts extracted on the way
RECURSIVE store_getitem(_, _)
store_getitem(store, k) ==
    IF store = Files
    THEN IF k \in DOMAIN base
         THEN [type |-> "bytes", val |-> base[k],
               reads |-> 1, parses |-> 0, texts |-> 0]
         ELSE [type |-> "KeyError", val |-> k,
               reads |-> 1, parses |-> 0, texts |-> 0]
    ELSE IF Outer(store) \in FilterLayers
    THEN IF filt_guards_getitem /\ ~filt_passes(Outer(store), k)
         THEN [type |-> "KeyError", val |-> k,
               reads |-> 0, parses |-> 0, texts |-> 0]
         ELSE store_getitem(Inner(store), k)
    ELSE decode(Outer(store), store_getitem(Inner(store), k))

(***************************************************************************)
(* The stores under test and the files they may sit on.                    *)
(***************************************************************************)
TextStores == {AllLocalFilesDocxTextStore, LocalDocxTextStore,
               doc_texts, with_extension_filter, zipped_doc_texts}

Stores == TextStores \cup {AllLocalFilesDocxStore, LocalDocxStore,
                           extension_less_keys(Files)}

\* 'a.docx', 'n.txt' and the dot-less name 'doc'
FileNames == {<<"a", ".", "d", "o", "c", "x">>, <<"n", ".", "t", "x", "t">>,
              <<"d", "o", "c">>}

\* what a file may hold: no package, or a document with a blank paragraph
\* between two others
FileContents == {NotADoc, DocBytes(<<<<"a">>, <<>>, <<"b">>>>)}

Directories ==
    UNION {[names -> FileContents] :
             names \in {S \in SUBSET FileNames : Cardinality(S) <= MaxKeys}}

NoOp == [op |-> "none", store |-> Files, key |-> None, type |-> "none",
         val |-> None, reads |-> 0, parses |-> 0, texts |-> 0]

NoLookup == [store |-> Files, key |-> None, type |-> "none", val |-> None]

\* the latest keyed lookup through a text store, kept when the next operation
\* replaces it in last
Remember ==
    IF last.op = "getitem" /\ last.store \in TextStores
    THEN [store |-> last.store, key |-> last.key,
          type |-> last.type, val |-> last.val]
    ELSE prev

Init ==
    /\ base \in Directories
    /\ filt_guards_getitem \in BOOLEAN
    /\ last = NoOp
    /\ prev = NoLookup

\* a plausible slip: iteration goes through the items and decodes every value
IterateDecodingValues(store) ==
    LET rs == {store_getitem(store, k) : k \in store_iter(store)}
        bad == {r \in rs : r.type \notin ValueTypes}
    IN  /\ last' = [op |-> "iter", store |-> store, key |-> None,
                    type |-> IF bad = {} THEN "keys"
                             ELSE (CHOOSE r \in bad : TRUE).type,
                    val |-> IF bad = {} THEN store_iter(store) ELSE None,
                    reads |-> Cardinality(store_iter(store)),
                    parses |-> Cardinality(store_iter(store)),
                    texts |-> 0]
        /\ prev' = Remember
        /\ UNCHANGED <<base, filt_guards_getitem>>

\* list(store), sorted(store), for k in store
Iterate(store) ==
    /\ last' = [op |-> "iter", store |-> store, key |-> None,
                type |-> "keys", val |-> store_iter(store),
                reads |-> 0, parses |-> 0, texts |-> 0]
    /\ prev' = Remember
    /\ UNCHANGED <<base, filt_guards_getitem>>

\* k in store
Contains(store, k) ==
    /\ last' = [op |-> "contains", store |-> store, key |-> k,
                type |-> "bool", val |-> store_contains(store, k),
                reads |-> 0, parses |-> 0, texts |-> 0]
    /\ prev' = Remember
    /\ UNCHANGED <<base, filt_guards_getitem>>

\* a plausible slip: a value looked up before is served from a cache
GetItemMemoized(store, k) ==
    /\ last' = IF prev.type # "none" /\ prev.store = store /\ prev.key = k
               THEN [op |-> "getitem", store |-> store, key |-> k,
                     type |-> prev.type, val |-> prev.val,
                     reads |-> 0, parses |-> 0, texts |-> 0]
               ELSE [op |-> "getitem", store |-> store, key |-> k]
                    @@ store_getitem(store, k)
    /\ prev' = Remember
    /\ UNCHANGED <<base, filt_guards_getitem>>

\* store[k]
GetItem(store, k) ==
    /\ last' = [op |-> "getitem", store |-> store, key |-> k]
               @@ store_getitem(store, k)
    /\ prev' = Remember
    /\ UNCHANGED <<base, filt_guards_getitem>>

Next ==
    \/ \E store \in Stores : Iterate(store)
    \/ \E store \in Stores, k \in FileNames : Contains(store, k)
    \/ \E store \in Stores, k \in FileNames : GetItem(store, k)

Spec == Init /\ [][Next]_vars

(***************************************************************************)
(* The helpers called on their own: an empty directory, and one call at a  *)
(* time of a key helper or of get_text_from_docx.                          *)
(***************************************************************************)
SeqsUpTo(S, n) == UNION {[1..m -> S] : m \in 0..n}

\* the segments identifiers are made of: '', 'a', 'doc', 'docx', 'DOCX', 'txt'
Segments == {<<>>, <<"a">>, <<"d", "o", "c">>, <<"d", "o", "c", "x">>,
             <<"D", "O", "C", "X">>, <<"t", "x", "t">>}

\* '', 'a', 'doc', 'a.docx', 'a.DOCX', 'a.txt', 'doc.', '.docx', 'docx.doc', ...
Identifiers ==
    {str_join(<<".">>, segs) : segs \in SeqsUpTo(Segments, MaxSegs) \ {<<>>}}

ParagraphTexts == {<<>>, <<"a">>}

Documents ==
    {[paragraphs |-> [i \in 1..Len(ts) |-> Para(ts[i])]] :
        ts \in SeqsUpTo(ParagraphTexts, MaxParas)}

Separators == {DFLT_PARAGRAPH_SEP, <<>>, <<",", " ">>}

InitFn ==
    /\ base \in {d \in Directories : DOMAIN d = {}}
    /\ filt_guards_getitem \in BOOLEAN
    /\ last = NoOp
    /\ prev = NoLookup

Call_has_msword_extension(k) ==
    /\ last' = [op |-> "has_msword_extension", arg |-> k,
                holds |-> has_msword_extension(k)]
    /\ UNCHANGED <<base, filt_guards_getitem, prev>>

Call_add_docx_extension(k) ==
    /\ last' = [op |-> "_add_docx_extension", arg |-> k,
                val |-> _add_docx_extension(k)]
    /\ UNCHANGED <<base, filt_guards_getitem, prev>>

Call_remove_docx_extension(k) ==
    /\ last' = [op |-> "_remove_docx_extension", arg |-> k,
                val |-> _remove_docx_extension(k)]
    /\ UNCHANGED <<base, filt_guards_getitem, prev>>

\* get_text_from_docx(doc, paragraph_sep)
Call_get_text_from_docx(doc, paragraph_sep) ==
    /\ last' = [op |-> "get_text_from_docx", arg |-> doc, sep_given |-> TRUE,
                sep |-> paragraph_sep,
                val |-> get_text_from_docx(doc, paragraph_sep)]
    /\ UNCHANGED <<base, filt_guards_getitem, prev>>

\* get_text_from_docx(doc): the separator is the parameter's default
Call_get_text_from_docx_default(doc) ==
    /\ last' = [op |-> "get_text_from_docx", arg |-> doc, sep_given |-> FALSE,
                sep |-> None,
                val |-> get_text_from_docx(doc, DFLT_PARAGRAPH_SEP)]
    /\ UNCHANGED <<base, filt_guards_getitem, prev>>

NextFn ==
    \/ \E k \in Identifiers : Call_has_msword_extension(k)
    \/ \E k \in Identifiers : Call_add_docx_extension(k)
    \/ \E k \in Identifiers : Call_remove_docx_extension(k)
    \/ last.op = "_add_docx_extension" /\ Call_remove_docx_extension(last.val)
    \/ \E doc \in Documents, sep \in Separators :
          Call_get_text_from_docx(doc, sep)
    \/ \E doc \in Documents : Call_get_text_from_docx_default(doc)

SpecFn == InitFn /\ [][NextFn]_vars

(***************************************************************************)
(* What the claims speak of, stated without the helpers above.             *)
(***************************************************************************)
HasDot(k) == \E i \in 1..Len(k) : k[i] = "."

\* the substring strictly after the final '.', for a k that has one
AfterFinalDot(k) ==
    LET i == CHOOSE j \in 1..Len(k) :
                 k[j] = "." /\ \A h \in (j + 1)..Len(k) : k[h] # "."
    IN  SubSeq(k, i + 1, Len(k))

DotExtensionIsMsword(k) ==
    /\ HasDot(k)
    /\ \/ AfterFinalDot(k) = <<"d", "o", "c">>
       \/ AfterFinalDot(k) = <<"d", "o", "c", "x">>

EndsWithDocx(k) ==
    /\ Len(k) >= 5
    /\ SubSeq(k, Len(k) - 4, Len(k)) = <<".", "d", "o", "c", "x">>

WithoutLast5(k) == SubSeq(k, 1, Len(k) - 5)

FilteredStores == {LocalDocxStore, LocalDocxTextStore,
                   with_extension_filter, zipped_doc_texts}

SameOutcome(r1, r2) == r1.type = r2.type /\ r1.val = r2.val

\* C1: over a store wrapped by only_files_with_msword_extension, a key of the
\* base is yielded by iteration, and passes the membership test, exactly when
\* it has a '.' and what follows its final '.' is 'doc' or 'docx'.
C1_YieldedIffDotExtension ==
    /\ (last.op = "iter" /\ last.store \in FilteredStores)
          => \A k \in DOMAIN base : k \in last.val <=> DotExtensionIsMsword(k)
    /\ (last.op = "contains" /\ last.store \in FilteredStores
           /\ last.key \in DOMAIN base)
          => (last.val <=> DotExtensionIsMsword(last.key))

\* C2: an identifier without any '.' is never yielded by a filtered store and
\* never passes its membership test.
C2_DotlessExcluded ==
    /\ (last.op = "iter" /\ last.store \in FilteredStores)
          => \A k \in last.val : HasDot(k)
    /\ (last.op = "contains" /\ last.store \in FilteredStores
           /\ ~HasDot(last.key))
          => last.val = FALSE

\* where paragraph i starts in the joined text, counted from 0: every earlier
\* paragraph takes its own length and one separator
RECURSIVE SegmentStart(_, _, _)
SegmentStart(texts, sep, i) ==
    IF i = 1 THEN 0
    ELSE SegmentStart(texts, sep, i - 1) + Len(texts[i - 1]) + Len(sep)

\* C3: get_text_from_docx(doc, sep) is the paragraphs' texts in document
\* order, none dropped, with sep between consecutive ones and nowhere else: no
\* paragraphs give the empty string, a paragraph without text still takes its
\* (empty) place, and the separator is '\n' when none is given.
C3_TextIsJoinOfParagraphs ==
    last.op = "get_text_from_docx" =>
        LET ps  == last.arg.paragraphs
            n   == Len(ps)
            sep == IF last.sep_given THEN last.sep ELSE <<"\n">>
            ts  == [i \in 1..n |-> ps[i].text]
            out == last.val
        IN  /\ n = 0 => out = <<>>
            /\ n > 0 => Len(out) = SegmentStart(ts, sep, n) + Len(ts[n])
            /\ \A i \in 1..n :
                  LET from == SegmentStart(ts, sep, i)
                  IN  /\ SubSeq(out, from + 1, from + Len(ts[i])) = ts[i]
                      /\ i < n =>
                            SubSeq(out, from + Len(ts[i]) + 1,
                                   from + Len(ts[i]) + Len(sep)) = sep

\* C3 happens: a document with a blank paragraph between two others, joined
\* with the default separator, shows two consecutive newlines.
C3_Witness ==
    /\ last.op = "get_text_from_docx"
    /\ ~last.sep_given
    /\ Len(last.arg.paragraphs) = 3
    /\ last.arg.paragraphs[2].text = <<>>
    /\ last.val = <<"a", "\n", "\n", "a">>

\* C6: _add_docx_extension(k) is k followed by '.docx', and
\* _remove_docx_extension, given k followed by '.docx', gives k back.
C6_RemoveInvertsAdd ==
    /\ (last.op = "_remove_docx_extension" /\ EndsWithDocx(last.arg))
          => last.val = WithoutLast5(last.arg)
    /\ last.op = "_add_docx_extension"
          => last.val = last.arg \o <<".", "d", "o", "c", "x">>

\* C10: iterating extension_less_keys(store) yields exactly the keys of the
\* store that end in '.docx', each without that extension.
C10_ExtensionLessKeys ==
    (last.op = "iter" /\ last.store = extension_less_keys(Files))
        => last.val = {WithoutLast5(k) : k \in {j \in DOMAIN base : EndsWithDocx(j)}}

DecodingStores == Stores \ {extension_less_keys(Files)}

\* C4: decoding is lazy and per key.  Iteration and membership never parse a
\* package and never raise; DecodeError comes only from a keyed lookup of a
\* key whose bytes are no package, and is the parser's own exception; a keyed
\* lookup of a key the store holds fails exactly when that key's bytes are no
\* package, whatever was looked up before.
C4_DecodingIsLazyPerKey ==
    /\ last.op \in {"iter", "contains"}
          => /\ last.parses = 0 /\ last.texts = 0
             /\ last.type \in {"keys", "bool"}
    /\ last.type = "DecodeError"
          => /\ last.op = "getitem"
             /\ last.key \in DOMAIN base
             /\ ~base[last.key].wellformed
             /\ SameOutcome(last, bytes_to_doc(base[last.key]))
    /\ (last.op = "getitem" /\ last.store \in DecodingStores
           /\ store_contains(last.store, last.key))
          => IF base[last.key].wellformed
             THEN last.type \in {"Document", "str"}
             ELSE last.type = "DecodeError"

\* C4 happens: a lookup through the text-decoding mapping succeeds right
\* after a lookup of another key, through the same mapping, raised DecodeError.
C4_Witness ==
    /\ prev.type = "DecodeError"
    /\ prev.store = doc_texts
    /\ last.op = "getitem"
    /\ last.store = doc_texts
    /\ last.key # prev.key
    /\ last.type = "str"

\* C7: the named stores are compositions.  AllLocalFilesDocxTextStore[k] is
\* get_text_from_docx of AllLocalFilesDocxStore[k] (or that lookup's error) and
\* is with_bytes_to_text_decoding(Files)[k]; LocalDocxStore and
\* LocalDocxTextStore give, for each key they show, what their unfiltered
\* counterparts give, and they yield the unfiltered keys that satisfy
\* has_msword_extension.
C7_StoresAreCompositions ==
    /\ (last.op = "getitem" /\ last.store = AllLocalFilesDocxTextStore)
          => LET d == store_getitem(AllLocalFilesDocxStore, last.key)
             IN  /\ IF d.type = "Document"
                    THEN /\ last.type = "str"
                         /\ last.val =
                               get_text_from_docx(d.val, DFLT_PARAGRAPH_SEP)
                    ELSE SameOutcome(last, d)
                 /\ SameOutcome(last, store_getitem(doc_texts, last.key))
    /\ (last.op = "getitem" /\ last.store = LocalDocxStore
           /\ last.key \in store_iter(LocalDocxStore))
          => SameOutcome(last, store_getitem(AllLocalFilesDocxStore, last.key))
    /\ (last.op = "getitem" /\ last.store = LocalDocxTextStore
           /\ last.key \in store_iter(LocalDocxTextStore))
          => SameOutcome(last,
                         store_getitem(AllLocalFilesDocxTextStore, last.key))
    /\ (last.op = "iter" /\ last.store = LocalDocxStore)
          => last.val = {k \in store_iter(AllLocalFilesDocxStore) :
                            has_msword_extension(k)}
    /\ (last.op = "iter" /\ last.store = LocalDocxTextStore)
          => last.val = {k \in store_iter(AllLocalFilesDocxTextStore) :
                            has_msword_extension(k)}

\* C7 happens: AllLocalFilesDocxTextStore returned the text of a document.
C7_Witness ==
    /\ last.op = "getitem"
    /\ last.store = AllLocalFilesDocxTextStore
    /\ last.type = "str"
    /\ last.val = <<"a", "\n", "\n", "b">>

\* C8: reads are idempotent and free of side effects.  No operation changes
\* the files; a keyed lookup through a text store gives what the latest
\* earlier lookup of that key through that store gave; and a lookup of a key
\* the store holds reads the byte source once and parses once, every time.
C8_ReadsAreIdempotent ==
    [][/\ base' = base
       /\ (last'.op = "getitem" /\ last'.store \in TextStores)
             => /\ (prev'.type # "none" /\ prev'.store = last'.store
                       /\ prev'.key = last'.key)
                      => SameOutcome(last', prev')
                /\ store_contains(last'.store, last'.key)
                      => last'.reads = 1 /\ last'.parses = 1]_vars

\* C8 happens: the same key was looked up twice in a row through
\* LocalDocxTextStore and gave a text both times.
C8_Witness ==
    /\ last.op = "getitem"
    /\ last.store = LocalDocxTextStore
    /\ prev.store = last.store
    /\ prev.key = last.key
    /\ prev.type = "str"
    /\ last.type = "str"

\* C9: filter then decoder (the archive pipeline) and decoder then filter (the
\* loose files) over the same keys and bytes yield the same keys and, for
\* every key they yield, the same outcome.
C9_WrapperOrderIrrelevant ==
    /\ (last.op = "iter" /\ last.store = zipped_doc_texts)
          => last.val = store_iter(with_extension_filter)
    /\ (last.op = "iter" /\ last.store = with_extension_filter)
          => last.val = store_iter(zipped_doc_texts)
    /\ (last.op = "getitem" /\ last.store = zipped_doc_texts
           /\ last.key \in store_iter(zipped_doc_texts))
          => SameOutcome(last, store_getitem(with_extension_filter, last.key))
    /\ (last.op = "getitem" /\ last.store = with_extension_filter
           /\ last.key \in store_iter(with_extension_filter))
          => SameOutcome(last, store_getitem(zipped_doc_texts, last.key))

\* C9 happens: the archive pipeline returned the text of a key it yields.
C9_Witness ==
    /\ last.op = "getitem"
    /\ last.store = zipped_doc_texts
    /\ last.key \in store_iter(zipped_doc_texts)
    /\ last.type = "str"

====
